---- MODULE Spec2Model ----
(***************************************************************************)
(* Model of thingProperties.h (Arduino IoT Cloud sketch configuration):    *)
(* four global int telemetry variables, the credential constants, the      *)
(* global Wi-Fi connection handler and the registration routine            *)
(* initProperties().                                                       *)
(*                                                                         *)
(* The header is compiled against a secrets header that supplies           *)
(* SECRET_SSID, SECRET_OPTIONAL_PASS and SECRET_DEVICE_KEY.  To compare    *)
(* what two different secret configurations hand to the SDK, every piece   *)
(* of state is indexed by a build: one compilation of the header with one  *)
(* secret configuration, running on one device.                            *)
(*                                                                         *)
(* A definition whose name extends another's with a suffix (for example    *)
(* Store_Aliased beside Store) is a faulty variant of it, kept to show     *)
(* that a property is decided by the definition it varies.                 *)
(***************************************************************************)
EXTENDS Integers, Sequences, FiniteSets, TLC

\* ---------------------------------------------------------------- bounds

\* Telemetry values written by the sketch are drawn from 0..MaxVal.
MaxVal == 1

\* initProperties() has no guard of its own; the model lets a caller invoke
\* it at most MaxInitCalls times per build.
MaxInitCalls == 2

Values == 0 .. MaxVal

\* The two builds that are compared; Primary is the one whose sketch runs.
Build == {"A", "B"}
Primary == "A"

\* Values the secrets header may give to each SECRET_* macro.
SecretValues == {"net", "net5G"}
SecretConfig ==
    [SECRET_SSID : SecretValues,
     SECRET_OPTIONAL_PASS : SecretValues,
     SECRET_DEVICE_KEY : SecretValues]

\* ----------------------------------------------------------------- state

VARIABLES
    secrets,                        \* [Build -> SecretConfig], fixed at compile time
    aQI, pM1, pM10, pM2_5,          \* the four global ints, per build
    ArduinoCloud,                   \* the SDK's cloud session object, per build
    ArduinoIoTPreferredConnection,  \* the global connection handler, per build
    callLog,                        \* SDK calls issued by initProperties(), in order
    sdkFault,                       \* which SDK call of the latest invocation failed inside the SDK (0: none)
    initCalls,                      \* number of invocations of initProperties()
    lastWrite,                      \* per variable: the value last assigned, or NoWrite
    pc                              \* position of the sketch: "setup" or "loop"

vars == <<secrets, aQI, pM1, pM10, pM2_5, ArduinoCloud,
          ArduinoIoTPreferredConnection, callLog, sdkFault, initCalls,
          lastWrite, pc>>

telemetry == <<aQI, pM1, pM10, pM2_5>>

VarNames == {"aQI", "pM1", "pM10", "pM2_5"}
\* lastWrite of a variable that was never assigned, and of one assigned v.
NoWrite == [written |-> FALSE, value |-> 0]
Written(v) == [written |-> TRUE, value |-> v]

\* The current value of the global named n in build b.
Var(b, n) ==
    CASE n = "aQI"   -> aQI[b]
      [] n = "pM1"   -> pM1[b]
      [] n = "pM10"  -> pM10[b]
      [] n = "pM2_5" -> pM2_5[b]

\* ------------------------------------------------- credential constants

DEVICE_LOGIN_NAME == "03c3af77-7486-4361-a0e9-9b943698ecdb"

SSID(b) == secrets[b].SECRET_SSID

PASS(b) == secrets[b].SECRET_OPTIONAL_PASS

DEVICE_KEY_FixedInFile(b) == "net"
DEVICE_KEY(b) == secrets[b].SECRET_DEVICE_KEY

\* ------------------------------------------------------- SDK vocabulary

READ == "READ"
READWRITE == "READWRITE"
NULL == "NULL"
SECONDS == 1

\* A global with static storage duration and no initializer is
\* zero-initialized.
StaticInit_Indeterminate(n) == IF n = "pM10" THEN 1 ELSE 0
StaticInit(n) == 0

\* The session object before any call: no board id, no key, no properties.
NewCloud ==
    [boardId |-> "", secretDeviceKey |-> "", properties |-> <<>>,
     started |-> FALSE]

\* WiFiConnectionHandler(ssid, pass): the handler keeps the two strings.
WiFiConnectionHandler_Swapped(ssid, pass) == [ssid |-> pass, pass |-> ssid]
WiFiConnectionHandler(ssid, pass) == [ssid |-> ssid, pass |-> pass]

\* The arguments of one addProperty call: the variable bound (by
\* reference), the permission, the interval and the change callback.
Binding(n, permission, interval, callback) ==
    [var |-> n, permission |-> permission, interval |-> interval,
     callback |-> callback]

Call(fn, arg) == [fn |-> fn, arg |-> arg]

\* ------------------------------------------------------ initProperties()

\* The body of initProperties(): six SDK calls, straight-line.
InitPropertiesCalls_CopyPaste(b) ==
    << Call("setBoardId", DEVICE_LOGIN_NAME),
       Call("setSecretDeviceKey", DEVICE_KEY(b)),
       Call("addProperty", Binding("aQI", READ, 5 * SECONDS, NULL)),
       Call("addProperty", Binding("aQI", READ, 5 * SECONDS, NULL)),
       Call("addProperty", Binding("pM10", READ, 5 * SECONDS, NULL)),
       Call("addProperty", Binding("pM2_5", READ, 5 * SECONDS, NULL)) >>
InitPropertiesCalls_WritablePM1(b) ==
    << Call("setBoardId", DEVICE_LOGIN_NAME),
       Call("setSecretDeviceKey", DEVICE_KEY(b)),
       Call("addProperty", Binding("aQI", READ, 5 * SECONDS, NULL)),
       Call("addProperty", Binding("pM1", READWRITE, 1 * SECONDS, NULL)),
       Call("addProperty", Binding("pM10", READ, 5 * SECONDS, NULL)),
       Call("addProperty", Binding("pM2_5", READ, 5 * SECONDS, NULL)) >>
InitPropertiesCalls(b) ==
    << Call("setBoardId", DEVICE_LOGIN_NAME),
       Call("setSecretDeviceKey", DEVICE_KEY(b)),
       Call("addProperty", Binding("aQI", READ, 5 * SECONDS, NULL)),
       Call("addProperty", Binding("pM1", READ, 5 * SECONDS, NULL)),
       Call("addProperty", Binding("pM10", READ, 5 * SECONDS, NULL)),
       Call("addProperty", Binding("pM2_5", READ, 5 * SECONDS, NULL)) >>

NCalls == 6

\* fault = k > 0: the k-th SDK call meets a failure inside the SDK.
Faults == 0 .. NCalls

\* The calls the routine issues when the SDK call numbered fault fails:
\* no result is inspected, so all of them.
Executed_StopAtFault(calls, fault) ==
    IF fault = 0 THEN calls ELSE SubSeq(calls, 1, fault)
Executed(calls, fault) == calls

\* What one SDK call does to the session object.
ApplyCall_Starting(cloud, call) ==
    CASE call.fn = "setBoardId" ->
            [cloud EXCEPT !.boardId = call.arg, !.started = TRUE]
      [] call.fn = "setSecretDeviceKey" ->
            [cloud EXCEPT !.secretDeviceKey = call.arg]
      [] call.fn = "addProperty" ->
            [cloud EXCEPT !.properties = Append(@, call.arg)]
ApplyCall_KeyDropped(cloud, call) ==
    CASE call.fn = "setBoardId" -> [cloud EXCEPT !.boardId = call.arg]
      [] call.fn = "setSecretDeviceKey" -> cloud
      [] call.fn = "addProperty" ->
            [cloud EXCEPT !.properties = Append(@, call.arg)]
ApplyCall(cloud, call) ==
    CASE call.fn = "setBoardId" -> [cloud EXCEPT !.boardId = call.arg]
      [] call.fn = "setSecretDeviceKey" ->
            [cloud EXCEPT !.secretDeviceKey = call.arg]
      [] call.fn = "addProperty" ->
            [cloud EXCEPT !.properties = Append(@, call.arg)]

RECURSIVE ApplyCalls(_, _)
ApplyCalls(cloud, calls) ==
    IF calls = <<>> THEN cloud
    ELSE ApplyCalls(ApplyCall(cloud, Head(calls)), Tail(calls))

\* The session object of build b after initProperties() has run.
CloudAfterInit(b, fault) ==
    ApplyCalls(ArduinoCloud[b], Executed(InitPropertiesCalls(b), fault))

\* What an invocation of initProperties() leaves in the bookkeeping.
InitBookkeeping(b, fault) ==
    /\ callLog' = [callLog EXCEPT
                     ![b] = @ \o Executed(InitPropertiesCalls(b), fault)]
    /\ sdkFault' = [sdkFault EXCEPT ![b] = fault]
    /\ initCalls' = [initCalls EXCEPT ![b] = @ + 1]

initProperties(b, fault) ==
    /\ initCalls[b] < MaxInitCalls
    /\ ArduinoCloud' = [ArduinoCloud EXCEPT ![b] = CloudAfterInit(b, fault)]
    /\ InitBookkeeping(b, fault)
    /\ UNCHANGED <<secrets, telemetry, ArduinoIoTPreferredConnection,
                   lastWrite, pc>>

\* ------------------------------------------------- telemetry assignment

\* `n = v;` executed by the sketch on build b.
Store_Aliased(b, n, v) ==
    /\ aQI' = IF n = "aQI" THEN [aQI EXCEPT ![b] = v] ELSE aQI
    /\ pM1' = IF n = "pM1" THEN [pM1 EXCEPT ![b] = v] ELSE pM1
    /\ pM10' = IF n \in {"pM10", "pM1"} THEN [pM10 EXCEPT ![b] = v] ELSE pM10
    /\ pM2_5' = IF n = "pM2_5" THEN [pM2_5 EXCEPT ![b] = v] ELSE pM2_5
    /\ lastWrite' = [lastWrite EXCEPT ![b][n] = Written(v)]
Store(b, n, v) ==
    /\ aQI' = IF n = "aQI" THEN [aQI EXCEPT ![b] = v] ELSE aQI
    /\ pM1' = IF n = "pM1" THEN [pM1 EXCEPT ![b] = v] ELSE pM1
    /\ pM10' = IF n = "pM10" THEN [pM10 EXCEPT ![b] = v] ELSE pM10
    /\ pM2_5' = IF n = "pM2_5" THEN [pM2_5 EXCEPT ![b] = v] ELSE pM2_5
    /\ lastWrite' = [lastWrite EXCEPT ![b][n] = Written(v)]

Assign(b, n, v) ==
    /\ Store(b, n, v)
    /\ UNCHANGED <<secrets, ArduinoCloud, ArduinoIoTPreferredConnection,
                   callLog, sdkFault, initCalls, pc>>

\* ------------------------------------------------------------ the sketch

\* setup(): register the properties, then start the cloud session on the
\* preferred connection.
setup_BeginOnly(b, fault) ==
    /\ pc[b] = "setup"
    /\ ArduinoCloud' = [ArduinoCloud EXCEPT ![b].started = TRUE]
    /\ pc' = [pc EXCEPT ![b] = "loop"]
    /\ UNCHANGED <<secrets, telemetry, ArduinoIoTPreferredConnection,
                   lastWrite, callLog, sdkFault, initCalls>>
setup(b, fault) ==
    /\ pc[b] = "setup"
    /\ ArduinoCloud' = [ArduinoCloud EXCEPT
                          ![b] = [CloudAfterInit(b, fault) EXCEPT
                                    !.started = TRUE]]
    /\ InitBookkeeping(b, fault)
    /\ pc' = [pc EXCEPT ![b] = "loop"]
    /\ UNCHANGED <<secrets, telemetry, ArduinoIoTPreferredConnection,
                   lastWrite>>

\* loop(): the sensor logic assigns a reading before the next cloud
\* synchronization.
loop(b, n, v) ==
    /\ pc[b] = "loop"
    /\ Store(b, n, v)
    /\ UNCHANGED <<secrets, ArduinoCloud, ArduinoIoTPreferredConnection,
                   callLog, sdkFault, initCalls, pc>>

\* -------------------------------------------------------- specifications

Init ==
    /\ secrets \in [Build -> SecretConfig]
    /\ aQI = [b \in Build |-> StaticInit("aQI")]
    /\ pM1 = [b \in Build |-> StaticInit("pM1")]
    /\ pM10 = [b \in Build |-> StaticInit("pM10")]
    /\ pM2_5 = [b \in Build |-> StaticInit("pM2_5")]
    /\ ArduinoCloud = [b \in Build |-> NewCloud]
    /\ ArduinoIoTPreferredConnection =
          [b \in Build |-> WiFiConnectionHandler(SSID(b), PASS(b))]
    /\ callLog = [b \in Build |-> <<>>]
    /\ sdkFault = [b \in Build |-> 0]
    /\ initCalls = [b \in Build |-> 0]
    /\ lastWrite = [b \in Build |-> [n \in VarNames |-> NoWrite]]
    /\ pc = [b \in Build |-> "setup"]

\* Any caller: the header itself, with initProperties() and the assignments
\* invoked in any order on the primary build.
Next ==
    \/ \E fault \in Faults : initProperties(Primary, fault)
    \/ \E n \in VarNames, v \in Values : Assign(Primary, n, v)

Spec == Init /\ [][Next]_vars

\* Two builds with their own secrets, each running initProperties().
PairNext == \E b \in Build, fault \in Faults : initProperties(b, fault)

PairSpec == Init /\ [][PairNext]_vars

\* The sketch that includes the header: setup() once, then loop().
SketchNext ==
    \/ \E fault \in Faults : setup(Primary, fault)
    \/ \E n \in VarNames, v \in Values : loop(Primary, n, v)

SketchSpec == Init /\ [][SketchNext]_vars

\* ------------------------------------------------------------ properties

Table(b) == ArduinoCloud[b].properties

Handler(b) == ArduinoIoTPreferredConnection[b]

\* C1: after one call of initProperties() from the empty table, the table
\* holds exactly four bindings, one for each of aQI, pM1, pM10 and pM2_5:
\* none twice, none missing, none for any other variable.
C1_ExactlyFourBindings ==
    \A b \in Build :
        initCalls[b] = 1 =>
            /\ Len(Table(b)) = 4
            /\ \A i \in 1 .. Len(Table(b)) :
                  Table(b)[i].var \in {"aQI", "pM1", "pM10", "pM2_5"}
            /\ \A n \in {"aQI", "pM1", "pM10", "pM2_5"} :
                  Cardinality({i \in 1 .. Len(Table(b)) :
                                  Table(b)[i].var = n}) = 1

C1_Witness ==
    /\ initCalls[Primary] = 1
    /\ Len(Table(Primary)) = 4
    /\ lastWrite[Primary]["pM1"] # NoWrite

\* C2: every binding initProperties() registers is read-only, has an
\* interval of five seconds and no change callback, and once the routine
\* has run each of the four variables has such a binding.
C2_FixedConfiguration ==
    \A b \in Build :
        /\ \A i \in 1 .. Len(Table(b)) :
              /\ Table(b)[i].permission = "READ"
              /\ Table(b)[i].interval = 5
              /\ Table(b)[i].callback = "NULL"
        /\ initCalls[b] >= 1 =>
              \A n \in {"aQI", "pM1", "pM10", "pM2_5"} :
                  \E i \in 1 .. Len(Table(b)) : Table(b)[i].var = n

C2_Witness ==
    /\ initCalls[Primary] = 2
    /\ Len(Table(Primary)) = 8
    /\ Table(Primary)[8].var = "pM2_5"

\* C3: each telemetry variable equals the value most recently assigned to
\* it, and a step that assigns one variable leaves the other three as they
\* were.
C3_LastAssignedRetained ==
    /\ [](\A b \in Build, n \in VarNames :
             lastWrite[b][n].written => Var(b, n) = lastWrite[b][n].value)
    /\ [][\A b \in Build, n \in VarNames :
             IF lastWrite'[b][n] # lastWrite[b][n]
             THEN Var(b, n)' = lastWrite'[b][n].value
             ELSE Var(b, n)' = Var(b, n)]_vars

C3_Witness ==
    /\ lastWrite[Primary]["pM1"] = Written(1)
    /\ lastWrite[Primary]["pM10"] = Written(0)
    /\ lastWrite[Primary]["aQI"] = NoWrite
    /\ pM1[Primary] = 1
    /\ pM10[Primary] = 0

\* C4: the handler's network name is SECRET_SSID and its password is
\* SECRET_OPTIONAL_PASS, and the device key initProperties() hands to the
\* cloud session is SECRET_DEVICE_KEY, each exactly as configured.
C4_CredentialsEqualSecrets ==
    \A b \in Build :
        /\ Handler(b).ssid = secrets[b].SECRET_SSID
        /\ Handler(b).pass = secrets[b].SECRET_OPTIONAL_PASS
        /\ initCalls[b] >= 1 =>
              /\ ArduinoCloud[b].secretDeviceKey = secrets[b].SECRET_DEVICE_KEY
              /\ callLog[b][2].fn = "setSecretDeviceKey"
              /\ callLog[b][2].arg = secrets[b].SECRET_DEVICE_KEY

C4_Witness ==
    /\ initCalls[Primary] >= 1
    /\ secrets[Primary].SECRET_SSID # secrets[Primary].SECRET_OPTIONAL_PASS
    /\ secrets[Primary].SECRET_OPTIONAL_PASS # secrets[Primary].SECRET_DEVICE_KEY
    /\ Handler(Primary).ssid = "net5G"

BothInitialised == \A b \in Build : initCalls[b] >= 1

\* The two builds were given secrets that differ in every secret input.
SecretsAllDiffer ==
    /\ secrets["A"].SECRET_SSID # secrets["B"].SECRET_SSID
    /\ secrets["A"].SECRET_OPTIONAL_PASS # secrets["B"].SECRET_OPTIONAL_PASS
    /\ secrets["A"].SECRET_DEVICE_KEY # secrets["B"].SECRET_DEVICE_KEY

\* C6 (as claimed): all four credentials are external inputs, none fixed in
\* the file: with every secret input changed, every credential handed to
\* the SDK (board identifier, device key, network name, network password)
\* changes.
C6_AllFourFromSecrets ==
    (BothInitialised /\ SecretsAllDiffer) =>
        /\ ArduinoCloud["A"].boardId # ArduinoCloud["B"].boardId
        /\ ArduinoCloud["A"].secretDeviceKey # ArduinoCloud["B"].secretDeviceKey
        /\ Handler("A").ssid # Handler("B").ssid
        /\ Handler("A").pass # Handler("B").pass

\* C6 (amended): the device key, the network name and the network password
\* are external inputs: each, as handed to the SDK, changes exactly when its
\* secret input changes.  The board identifier is fixed in the file: it is
\* the same whatever the secrets are.
C6_ThreeFromSecretsBoardIdFixed ==
    BothInitialised =>
        /\ (ArduinoCloud["A"].secretDeviceKey = ArduinoCloud["B"].secretDeviceKey)
              <=> (secrets["A"].SECRET_DEVICE_KEY = secrets["B"].SECRET_DEVICE_KEY)
        /\ (Handler("A").ssid = Handler("B").ssid)
              <=> (secrets["A"].SECRET_SSID = secrets["B"].SECRET_SSID)
        /\ (Handler("A").pass = Handler("B").pass)
              <=> (secrets["A"].SECRET_OPTIONAL_PASS = secrets["B"].SECRET_OPTIONAL_PASS)
        /\ ArduinoCloud["A"].boardId = ArduinoCloud["B"].boardId
        /\ ArduinoCloud["A"].boardId # ""

C6_Witness ==
    /\ BothInitialised
    /\ SecretsAllDiffer
    /\ sdkFault["A"] # sdkFault["B"]

\* C7: each telemetry variable is zero at process start and stays zero in
\* every state before its first assignment, also after initProperties().
C7_ZeroUntilAssigned ==
    \A b \in Build, n \in VarNames :
        lastWrite[b][n] = NoWrite => Var(b, n) = 0

C7_Witness ==
    /\ initCalls[Primary] >= 1
    /\ lastWrite[Primary]["pM10"] = NoWrite
    /\ pM10[Primary] = 0
    /\ lastWrite[Primary]["pM1"] = Written(1)

\* C8 (as claimed): a call of initProperties() changes nothing but the
\* property table: the telemetry values, the credentials, the handler and
\* all other state of the cloud session stay as they were.
C8_OnlyPropertyTable ==
    [][\A b \in Build :
          initCalls'[b] # initCalls[b] =>
              /\ telemetry' = telemetry
              /\ secrets' = secrets
              /\ ArduinoIoTPreferredConnection' = ArduinoIoTPreferredConnection
              /\ ArduinoCloud'[b] =
                    [ArduinoCloud[b] EXCEPT !.properties = Table(b)']]_vars

\* C8 (amended): a call of initProperties() appends four bindings to the
\* property table and sets the session's board identifier and secret device
\* key; the telemetry values, the credentials, the handler and the rest of
\* the session (whether it is started) stay as they were.
C8_TableBoardIdAndKeyOnly ==
    [][\A b \in Build :
          initCalls'[b] # initCalls[b] =>
              /\ telemetry' = telemetry
              /\ secrets' = secrets
              /\ ArduinoIoTPreferredConnection' = ArduinoIoTPreferredConnection
              /\ ArduinoCloud'[b].started = ArduinoCloud[b].started
              /\ ArduinoCloud'[b].boardId = "03c3af77-7486-4361-a0e9-9b943698ecdb"
              /\ ArduinoCloud'[b].secretDeviceKey = secrets[b].SECRET_DEVICE_KEY
              /\ Len(Table(b)') = Len(Table(b)) + 4
              /\ SubSeq(Table(b)', 1, Len(Table(b))) = Table(b)]_vars

C8_Witness ==
    /\ initCalls[Primary] = 1
    /\ ArduinoCloud[Primary].boardId # ""
    /\ ArduinoCloud[Primary].secretDeviceKey # ""
    /\ aQI[Primary] = 1
    /\ pM2_5[Primary] = 1

\* The credential values the handler of build b holds.
HandlerHolds(b) == {Handler(b)[f] : f \in DOMAIN Handler(b)}

\* C9 (as claimed): the handler, once constructed, holds all four
\* credentials: network name, network password, device login identifier and
\* device secret key.
C9_HandlerOwnsAllFour ==
    \A b \in Build :
        {secrets[b].SECRET_SSID, secrets[b].SECRET_OPTIONAL_PASS,
         secrets[b].SECRET_DEVICE_KEY,
         "03c3af77-7486-4361-a0e9-9b943698ecdb"} \subseteq HandlerHolds(b)

\* C9 (amended): the handler, once constructed, holds the network name and
\* the network password and nothing else; the device login identifier and
\* the device secret key are held by the cloud session once
\* initProperties() has run.
C9_HandlerOwnsNetworkOnly ==
    \A b \in Build :
        /\ DOMAIN Handler(b) = {"ssid", "pass"}
        /\ Handler(b).ssid = secrets[b].SECRET_SSID
        /\ Handler(b).pass = secrets[b].SECRET_OPTIONAL_PASS
        /\ "03c3af77-7486-4361-a0e9-9b943698ecdb" \notin HandlerHolds(b)
        /\ initCalls[b] >= 1 =>
              /\ ArduinoCloud[b].boardId = "03c3af77-7486-4361-a0e9-9b943698ecdb"
              /\ ArduinoCloud[b].secretDeviceKey = secrets[b].SECRET_DEVICE_KEY

C9_Witness ==
    /\ initCalls[Primary] >= 1
    /\ secrets[Primary].SECRET_DEVICE_KEY \notin HandlerHolds(Primary)
    /\ ArduinoCloud[Primary].secretDeviceKey = secrets[Primary].SECRET_DEVICE_KEY

\* C10: whatever happens inside the SDK, every invocation of
\* initProperties() issues its six SDK calls once each, in source order
\* (setBoardId, setSecretDeviceKey, then addProperty for aQI, pM1, pM10,
\* pM2_5), never skipping or repeating one.
C10_SixCallsInSourceOrder ==
    LET order == <<"setBoardId", "setSecretDeviceKey", "addProperty",
                   "addProperty", "addProperty", "addProperty">>
        bound == <<"", "", "aQI", "pM1", "pM10", "pM2_5">>
    IN  \A b \in Build :
            /\ Len(callLog[b]) = 6 * initCalls[b]
            /\ \A i \in 1 .. Len(callLog[b]) :
                  LET k == ((i - 1) % 6) + 1
                  IN  /\ callLog[b][i].fn = order[k]
                      /\ k >= 3 => callLog[b][i].arg.var = bound[k]

C10_Witness ==
    /\ initCalls[Primary] = 2
    /\ sdkFault[Primary] = 3
    /\ Len(callLog[Primary]) = 12
    /\ callLog[Primary][12].fn = "addProperty"

====
